---- MODULE Spec2Model ----
(***************************************************************************)
(* Model of the Busy Tag Spotify widget: the polling loop of main.py, the  *)
(* static image step of image_operations.py and the background canvas job  *)
(* of save_canvas.py, with the two threading.Event objects they share.     *)
(***************************************************************************)
EXTENDS Integers, FiniteSets, Sequences, TLC

\* Bound on the number of track changes dispatched in one behaviour.
MaxDispatch == 2

\* ------------------------------------------------------------------------
\* Data
\* ------------------------------------------------------------------------

\* Track identities (Spotify URIs) the provider may report.
Uris == {1, 2, 3, 4}

\* track_info['item']['name'] of each URI: 1 and 2 are different tracks
\* with the same display name, 4 has an empty name.
TrackName(uri) ==
    CASE uri = 1 -> "Intro"
      [] uri = 2 -> "Intro"
      [] uri = 3 -> "Outro"
      [] OTHER   -> ""

None == "None"

\* Bearer tokens: the one main() starts with and the ones the token
\* endpoint hands out on re-authorization.
Tokens == {"tok0", "tok1"}

NoInfo == [uri |-> 0, name |-> None, is_playing |-> FALSE]

Snapshot(uri, playing) == [uri |-> uri, name |-> TrackName(uri), is_playing |-> playing]

MP4 == "track_video.mp4"
GIF == "unedited_gif.gif"
TMP == "temp_overlay.gif"
OUT == "current_track_gif.gif"
ART == "track_image.png"

FileNames == {MP4, GIF, TMP, OUT, ART}

Intermediates == {MP4, GIF, TMP}

Jobs == 1..MaxDispatch

\* A process_canvas thread: its position, its local `ser`, whether one of
\* its stages has failed so far, and how it ended.
NoJob == [pc |-> "none", ser |-> None, stageFailed |-> FALSE, result |-> "none"]

\* What the static step of the dispatch in progress has done so far.
\* art: outcome of get_track_image; attempted: discovery and push of the
\* static image were tried; render: outcome of create_image_with_text
\* ("ok" when current_track_image.png was written); config: config.json
\* was updated; canvas: outcome of save_canvas ("ok" when it returned True).
NoDisp == [art |-> "none", attempted |-> FALSE, render |-> "none", config |-> FALSE,
           canvas |-> "none"]

\* No serial operation in progress.
NoSerial == [op |-> "none"]

\* No config update modelled.
NoConfig == [file |-> "none"]
NoImage == [op |-> "none"]

VARIABLES
    pc,                   \* position of the polling loop in main()
    exitReason,           \* why main() ended: "none", "reauth", "interrupt", "exception"
    access_token,         \* main.access_token (None or a token)
    gifsicle_path,        \* TRUE when setup_gifsicle() returned a path
    current_track_name,   \* main.current_track_name
    track_info,           \* main.track_info of the poll of this iteration
    status_code,          \* main.status_code of the poll of this iteration (0 for None)
    stop_thread_event,    \* threading.Event, main.py:14
    track_changed_flag,   \* threading.Event, main.py:13
    track_image,          \* process_track_image.track_image: TRUE when an image was fetched
    ser,                  \* process_track_image.ser: None, "closed" or "open"
    gen,                  \* number of track changes dispatched so far
    dispatched_uri,       \* identity of the last dispatched snapshot (0: none)
    disp,                 \* progress of the static step of the dispatch in progress
    jobs,                 \* the process_canvas threads, indexed by the dispatch that started them
    files,                \* the set of working files that exist
    backoff,              \* the poll of this iteration slept 10 s inside get_current_track
    ports,                \* serial.tools.list_ports.comports(): the behaviour of each port
    serial,               \* one serial operation in progress (find, static push, job push)
    config,               \* <volume>/config.json and the last update_busytag_config call
    image                 \* one rendering in progress: the text layout or the colour extraction

\* The variables of the polling loop and its jobs.
widget == <<pc, exitReason, access_token, gifsicle_path, current_track_name,
            track_info, status_code, stop_thread_event, track_changed_flag,
            track_image, ser, gen, dispatched_uri, disp, jobs, files, backoff>>

\* The variables of the serial layer and of the config file, which the
\* specifications SerialSpec and ConfigSpec expand.
aux == <<ports, serial, config, image>>

vars == <<widget, aux>>

mainLocals == <<track_image, ser, disp>>
hist == <<gen, dispatched_uri>>
events == <<stop_thread_event, track_changed_flag>>

\* ------------------------------------------------------------------------
\* Initial state: main() has authorized and is about to enter `while True`.
\* ------------------------------------------------------------------------
Init ==
    /\ pc = "top"
    /\ exitReason = "none"
    /\ access_token = "tok0"
    /\ gifsicle_path \in BOOLEAN
    /\ current_track_name = None
    /\ track_info = NoInfo
    /\ status_code = 0
    /\ stop_thread_event = FALSE
    /\ track_changed_flag = FALSE
    /\ track_image = FALSE
    /\ ser = None
    /\ gen = 0
    /\ dispatched_uri = 0
    /\ disp = NoDisp
    /\ jobs = [j \in Jobs |-> NoJob]
    /\ files = {}
    /\ backoff = FALSE
    /\ ports = << >>
    /\ serial = NoSerial
    /\ config = NoConfig
    /\ image = NoImage

\* ------------------------------------------------------------------------
\* Pure helpers
\* ------------------------------------------------------------------------

handle_track_change_AnyName(info, current) ==
    IF info.name # None /\ info.name # current
    THEN info.name
    ELSE current

\* handle_track_change(track_info, current_track_name), main.py:16-21
handle_track_change(info, current) ==
    IF info.name # None /\ info.name # "" /\ info.name # current
    THEN info.name
    ELSE current

\* open_serial_connection(find_busy_tag_device()): find returns a port or
\* None; serial.Serial(None) builds an unopened object, serial.Serial(port)
\* opens the port or raises SerialException (-> None).
SerOutcomes == {None, "closed", "open"}

\* `if ser:` on a Serial object or None
Truthy(s) == s # None

\* ------------------------------------------------------------------------
\* The polling loop, main.py:71-135
\* ------------------------------------------------------------------------

\* main.py:73  stop_thread_event.clear() at the top of every iteration; the
\* poll result of the previous iteration is dead from here on.
LoopTop ==
    /\ pc = "top"
    /\ stop_thread_event' = FALSE
    /\ track_info' = NoInfo
    /\ status_code' = 0
    /\ backoff' = FALSE
    /\ pc' = "polling"
    /\ UNCHANGED <<exitReason, access_token, gifsicle_path, current_track_name,
                   track_changed_flag, mainLocals, hist, jobs, files>>
    /\ UNCHANGED aux

\* The loop ends (break, KeyboardInterrupt or an uncaught exception) and
\* main() returns: its locals are gone.
Exit(reason) ==
    /\ pc' = "exited"
    /\ exitReason' = reason
    /\ access_token' = None
    /\ current_track_name' = None
    /\ track_info' = NoInfo
    /\ status_code' = 0
    /\ track_image' = FALSE
    /\ ser' = None
    /\ disp' = NoDisp

\* main.py:76-85 with spotify_api.py:13-15: status 401, re-authorization.
\* authCode: authorize_user returned a code; newToken: what get_access_token
\* returned (None, or a token other than the expired one).
Poll401_NoTokenCheck ==
    /\ pc = "polling"
    /\ \E authCode \in BOOLEAN, newToken \in (Tokens \ {access_token}) \cup {None} :
        IF authCode
        THEN /\ status_code' = 401
             /\ track_info' = NoInfo
             /\ access_token' = newToken
             /\ pc' = "top"
             /\ UNCHANGED <<exitReason, current_track_name, mainLocals>>
        ELSE Exit("reauth")
    /\ UNCHANGED <<gifsicle_path, events, hist, jobs, files>>
    /\ UNCHANGED <<backoff, aux>>

Poll401 ==
    /\ pc = "polling"
    /\ \E authCode \in BOOLEAN, newToken \in (Tokens \ {access_token}) \cup {None} :
        IF authCode /\ newToken # None
        THEN /\ status_code' = 401
             /\ track_info' = NoInfo
             /\ access_token' = newToken
             /\ pc' = "top"
             /\ UNCHANGED <<exitReason, current_track_name, mainLocals>>
        ELSE Exit("reauth")
    /\ UNCHANGED <<gifsicle_path, events, hist, jobs, files>>
    /\ UNCHANGED <<backoff, aux>>

\* spotify_api.py:17-43: results that carry no track_info.
\* 204 (no track), 200 with an ad, 200 with item None, another status,
\* request error.  Only the 204 and the ad branch contain time.sleep(10)
\* (spotify_api.py:19 and 27).
PollNothing ==
    /\ pc = "polling"
    /\ \E r \in {"no_track", "ad", "no_item", "unexpected", "error"} :
        /\ status_code' = CASE r = "no_track"   -> 204
                            [] r = "ad"         -> 200
                            [] r = "no_item"    -> 200
                            [] r = "unexpected" -> 500
                            [] OTHER            -> 0
        /\ backoff' = (r \in {"no_track", "ad"})
    /\ UNCHANGED aux
    /\ track_info' = NoInfo
    /\ pc' = "top"
    /\ UNCHANGED <<exitReason, access_token, gifsicle_path, current_track_name,
                   events, mainLocals, hist, jobs, files>>

PollPaused_DetectsChange ==
    /\ pc = "polling"
    /\ \E uri \in Uris :
        LET info == Snapshot(uri, FALSE)
        IN  /\ track_info' = info
            /\ IF handle_track_change(info, current_track_name) # current_track_name
               THEN /\ gen < MaxDispatch
                    /\ stop_thread_event' = TRUE
                    /\ track_changed_flag' = FALSE
                    /\ pc' = "grace"
               ELSE /\ pc' = "top"
                    /\ UNCHANGED events
    /\ status_code' = 200
    /\ UNCHANGED <<exitReason, access_token, gifsicle_path, current_track_name,
                   mainLocals, hist, jobs, files>>
    /\ UNCHANGED <<backoff, aux>>

\* main.py:87-96: a snapshot that is not playing.
PollPaused ==
    /\ pc = "polling"
    /\ \E uri \in Uris :
        track_info' = Snapshot(uri, FALSE)
    /\ status_code' = 200
    /\ pc' = "top"
    /\ UNCHANGED <<exitReason, access_token, gifsicle_path, current_track_name,
                   events, mainLocals, hist, jobs, files>>
    /\ UNCHANGED <<backoff, aux>>

\* main.py:98-108: a playing snapshot; the comparison of main.py:105.
PollPlaying ==
    /\ pc = "polling"
    /\ \E uri \in Uris :
        LET info == Snapshot(uri, TRUE)
            new_track_name == handle_track_change(info, current_track_name)
        IN  /\ track_info' = info
            /\ status_code' = 200
            /\ IF new_track_name # current_track_name
               THEN /\ gen < MaxDispatch
                    \* main.py:107-108
                    /\ stop_thread_event' = TRUE
                    /\ track_changed_flag' = FALSE
                    /\ pc' = "grace"
               ELSE /\ pc' = "top"
                    /\ UNCHANGED events
    /\ UNCHANGED <<exitReason, access_token, gifsicle_path, current_track_name,
                   mainLocals, hist, jobs, files>>
    /\ UNCHANGED <<backoff, aux>>

\* main.py:109-113: the grace sleep, then the new name is recorded.
Dispatch ==
    /\ pc = "grace"
    /\ current_track_name' = handle_track_change(track_info, current_track_name)
    /\ gen' = gen + 1
    /\ dispatched_uri' = track_info.uri
    /\ pc' = "art"
    /\ UNCHANGED <<exitReason, access_token, gifsicle_path, track_info,
                   status_code, events, mainLocals, jobs, files>>
    /\ UNCHANGED <<backoff, aux>>

\* An exception that nothing catches leaves `while True` through the
\* `try ... except KeyboardInterrupt` of main.py:71-135 and ends main().
Crash ==
    /\ Exit("exception")
    /\ UNCHANGED <<gifsicle_path, events, hist, jobs, files>>

\* ------------------------------------------------------------------------
\* process_track_image, image_operations.py:323-361
\* ------------------------------------------------------------------------

\* get_track_image, image_operations.py:16-27.  Only RequestException is
\* caught: a missing images[0] entry (IndexError) and bytes that PIL cannot
\* identify (UnidentifiedImageError) propagate to main().
ArtOutcomes == {"ok", "request_error", "missing_entry", "undecodable"}

GetTrackImage ==
    /\ pc = "art"
    /\ \E o \in ArtOutcomes :
        IF o \in {"missing_entry", "undecodable"}
        THEN Crash
        ELSE /\ track_image' = (o = "ok")
             /\ disp' = [disp EXCEPT !.art = o]
             /\ pc' = "static_find"
             /\ UNCHANGED <<exitReason, access_token, gifsicle_path,
                            current_track_name, track_info, status_code,
                            events, ser, hist, jobs, files>>
    /\ UNCHANGED <<backoff, aux>>

\* image_operations.py:333-337: discovery, open and the first AT+SP of the
\* static image.  send_serial_command writes only when ser.is_open; an
\* exception of the send is caught at line 341 and skips the delete.
StaticPush_OnlyWithArtwork ==
    /\ pc = "static_find"
    /\ \E s \in SerOutcomes, sendRaises \in BOOLEAN :
        IF ~track_image
        THEN /\ ser' = None
             /\ pc' = "render"
             /\ UNCHANGED disp
        ELSE /\ disp' = [disp EXCEPT !.attempted = TRUE]
             /\ IF Truthy(s) /\ ~(s = "open" /\ sendRaises)
                THEN ser' = s /\ pc' = "static_delete"
                ELSE /\ ser' = (IF Truthy(s) THEN "closed" ELSE None)
                     /\ pc' = "render"
    /\ UNCHANGED <<exitReason, access_token, gifsicle_path, current_track_name,
                   track_info, status_code, events, track_image, hist, jobs, files>>
    /\ UNCHANGED <<backoff, aux>>

StaticPush ==
    /\ pc = "static_find"
    /\ \E s \in SerOutcomes, sendRaises \in BOOLEAN :
        /\ disp' = [disp EXCEPT !.attempted = TRUE]
        /\ IF Truthy(s) /\ ~(s = "open" /\ sendRaises)
           THEN ser' = s /\ pc' = "static_delete"
           ELSE /\ ser' = (IF Truthy(s) THEN "closed" ELSE None)
                /\ pc' = "render"
    /\ UNCHANGED <<exitReason, access_token, gifsicle_path, current_track_name,
                   track_info, status_code, events, track_image, hist, jobs, files>>
    /\ UNCHANGED <<backoff, aux>>

\* image_operations.py:338-344: delete_file(<volume>/current_track_gif.gif),
\* then close_serial_connection in the finally.
StaticDeleteGif ==
    /\ pc = "static_delete"
    /\ files' = files \ {OUT}
    /\ ser' = "closed"
    /\ pc' = "render"
    /\ UNCHANGED <<exitReason, access_token, gifsicle_path, current_track_name,
                   track_info, status_code, events, track_image, disp, hist, jobs>>
    /\ UNCHANGED <<backoff, aux>>

\* image_operations.py:346-349: save_image (errors swallowed, lines 29-33)
\* and create_image_with_text (lines 152-215).  handle_image_text loads the
\* font outside any try, so a font error propagates to main().
RenderOutcomes == {"ok", "font_error", "save_error"}

StaticRender ==
    /\ pc = "render"
    /\ IF ~track_image
       THEN /\ pc' = "canvas"
            /\ ser' = None
            /\ UNCHANGED <<exitReason, access_token, gifsicle_path,
                           current_track_name, track_info, status_code,
                           events, track_image, disp, hist, jobs, files>>
       ELSE \E saveArt \in BOOLEAN, o \in RenderOutcomes, cfgOk \in BOOLEAN :
            LET haveArt == saveArt \/ ART \in files
                done == haveArt /\ o = "ok"
            IN  IF haveArt /\ o = "font_error"
                THEN Crash
                ELSE /\ files' = files \cup (IF saveArt THEN {ART} ELSE {})
                     /\ disp' = [disp EXCEPT
                            !.render = IF ~haveArt THEN "open_error" ELSE o,
                            !.config = done /\ cfgOk]
                     /\ pc' = "static_push2"
                     /\ UNCHANGED <<exitReason, access_token, gifsicle_path,
                                    current_track_name, track_info, status_code,
                                    events, track_image, ser, hist, jobs>>
    /\ UNCHANGED <<backoff, aux>>

\* image_operations.py:351-361: when the first `ser` was an object, the
\* port is discovered, opened, written and closed a second time, which
\* leaves nothing behind; the function returns and its locals are gone.
StaticPushAgain ==
    /\ pc = "static_push2"
    /\ ser' = None
    /\ track_image' = FALSE
    /\ pc' = "canvas"
    /\ UNCHANGED <<exitReason, access_token, gifsicle_path, current_track_name,
                   track_info, status_code, events, disp, hist, jobs, files>>
    /\ UNCHANGED <<backoff, aux>>

\* ------------------------------------------------------------------------
\* Companion video and job launch, main.py:118-132
\* ------------------------------------------------------------------------

\* main.py:129-132: the end of a dispatching iteration.
EndIteration ==
    /\ disp' = NoDisp
    /\ pc' = "top"

\* save_canvas, save_canvas.py:91-103 (get_canvas_url 71-89, download_canvas
\* 53-68).  download_canvas catches RequestException only: an OSError while
\* writing track_video.mp4 propagates to main().  A RequestException in the
\* middle of the stream leaves a partial file behind.
CanvasOutcomes == {"ok", "no_canvas", "download_error", "partial_download", "write_error"}

SaveCanvas_IgnoresResult ==
    /\ pc = "canvas"
    /\ IF ~gifsicle_path
       THEN /\ EndIteration
            /\ UNCHANGED <<exitReason, access_token, current_track_name,
                           track_info, status_code, files, track_image, ser>>
       ELSE \E o \in CanvasOutcomes :
            IF o = "write_error"
            THEN /\ Exit("exception")
                 /\ UNCHANGED files
            ELSE /\ files' = files \cup (IF o \in {"ok", "partial_download"} THEN {MP4} ELSE {})
                 /\ IF o # "no_canvas"
                    THEN pc' = "launch" /\ disp' = [disp EXCEPT !.canvas = o]
                    ELSE EndIteration
                 /\ UNCHANGED <<exitReason, access_token, current_track_name,
                                track_info, status_code, track_image, ser>>
    /\ UNCHANGED <<gifsicle_path, events, hist, jobs>>
    /\ UNCHANGED <<backoff, aux>>

SaveCanvas ==
    /\ pc = "canvas"
    /\ IF ~gifsicle_path
       THEN /\ EndIteration
            /\ UNCHANGED <<exitReason, access_token, current_track_name,
                           track_info, status_code, files, track_image, ser>>
       ELSE \E o \in CanvasOutcomes :
            IF o = "write_error"
            THEN /\ Exit("exception")
                 /\ UNCHANGED files
            ELSE /\ files' = files \cup (IF o \in {"ok", "partial_download"} THEN {MP4} ELSE {})
                 /\ IF o = "ok"
                    THEN pc' = "launch" /\ disp' = [disp EXCEPT !.canvas = o]
                    ELSE EndIteration
                 /\ UNCHANGED <<exitReason, access_token, current_track_name,
                                track_info, status_code, track_image, ser>>
    /\ UNCHANGED <<gifsicle_path, events, hist, jobs>>
    /\ UNCHANGED <<backoff, aux>>

\* main.py:122-127: sleep, then threading.Thread(target=process_canvas).start()
LaunchJob ==
    /\ pc = "launch"
    /\ jobs' = [jobs EXCEPT ![gen] = [NoJob EXCEPT !.pc = "convert"]]
    /\ EndIteration
    /\ UNCHANGED <<exitReason, access_token, gifsicle_path, current_track_name,
                   track_info, status_code, events, track_image, ser, hist, files>>
    /\ UNCHANGED <<backoff, aux>>

\* main.py:134: KeyboardInterrupt, at any point of the loop.
Interrupt ==
    /\ pc # "exited"
    /\ Exit("interrupt")
    /\ UNCHANGED <<gifsicle_path, events, hist, jobs, files>>
    /\ UNCHANGED <<backoff, aux>>

\* ------------------------------------------------------------------------
\* process_canvas, save_canvas.py:118-178 (one thread per launched job)
\* ------------------------------------------------------------------------

mainVars == <<pc, exitReason, access_token, gifsicle_path, current_track_name,
              track_info, status_code, track_image, ser, hist, disp>>

\* Every way out of process_canvas runs the finally of lines 177-178; the
\* result is "cancelled" (the return of a checkpoint), "returned" (another
\* return or the end of the try body) or "failed" (the except of lines
\* 173-176).
JobEnd(j, result) ==
    /\ jobs' = [jobs EXCEPT ![j] = [NoJob EXCEPT !.pc = "done", !.result = result]]
    /\ track_changed_flag' = FALSE

JobFail_Uncaught(j) ==
    /\ jobs' = [jobs EXCEPT ![j] = [NoJob EXCEPT !.pc = "done", !.result = "uncaught"]]
    /\ UNCHANGED track_changed_flag

\* save_canvas.py:173-178: `except Exception` catches what a stage raised,
\* prints it, and the finally clears track_changed_flag.
JobFail(j) == JobEnd(j, "failed")

\* save_canvas.py:128 with convert_mp4_to_gif, image_operations.py:292-321.
\* A missing track_video.mp4 and any decode error are printed and swallowed
\* inside convert_mp4_to_gif: process_canvas goes on either way.
JobConvert(j) ==
    /\ jobs[j].pc = "convert"
    /\ \E o \in {"ok", "error"} :
        LET good == MP4 \in files /\ o = "ok"
        IN  /\ files' = files \cup (IF good THEN {GIF} ELSE {})
            /\ jobs' = [jobs EXCEPT ![j].pc = "check1", ![j].stageFailed = ~good]
    /\ UNCHANGED <<mainVars, events>>
    /\ UNCHANGED <<backoff, aux>>

\* save_canvas.py:132-134: first cancellation checkpoint.
JobCheck1(j) ==
    /\ jobs[j].pc = "check1"
    /\ IF stop_thread_event
       THEN JobEnd(j, "cancelled")
       ELSE /\ jobs' = [jobs EXCEPT ![j].pc = "overlay"]
            /\ UNCHANGED track_changed_flag
    /\ UNCHANGED <<mainVars, stop_thread_event, files>>
    /\ UNCHANGED <<backoff, aux>>

\* save_canvas.py:137 create_background_with_text and the first half of
\* overlay_gif_on_background, image_operations.py:250-273: a font error or
\* a missing unedited_gif.gif raises, temp_overlay.gif is written otherwise.
JobOverlay(j) ==
    /\ jobs[j].pc = "overlay"
    /\ \E o \in {"ok", "font_error"} :
        IF o = "font_error" \/ GIF \notin files
        THEN /\ JobFail(j)
             /\ UNCHANGED files
        ELSE /\ files' = files \cup {TMP}
             /\ jobs' = [jobs EXCEPT ![j].pc = "gifsicle"]
             /\ UNCHANGED track_changed_flag
    /\ UNCHANGED <<mainVars, stop_thread_event>>
    /\ UNCHANGED <<backoff, aux>>

\* image_operations.py:275-290: the gifsicle subprocess.  A non-zero exit
\* (CalledProcessError) is printed and swallowed; an OSError of
\* subprocess.run propagates; the finally removes temp_overlay.gif.
JobGifsicle(j) ==
    /\ jobs[j].pc = "gifsicle"
    /\ \E o \in {"ok", "nonzero", "oserror"} :
        LET good == TMP \in files /\ o = "ok"
        IN  /\ files' = (files \ {TMP}) \cup (IF good THEN {OUT} ELSE {})
            /\ IF o = "oserror"
               THEN JobFail(j)
               ELSE /\ jobs' = [jobs EXCEPT ![j].pc = "check2",
                                            ![j].stageFailed = @ \/ ~good]
                    /\ UNCHANGED track_changed_flag
    /\ UNCHANGED <<mainVars, stop_thread_event>>
    /\ UNCHANGED <<backoff, aux>>

JobCheck2_NoPoll(j) ==
    /\ jobs[j].pc = "check2"
    /\ jobs' = [jobs EXCEPT ![j].pc = "open"]
    /\ UNCHANGED <<mainVars, events, files>>
    /\ UNCHANGED <<backoff, aux>>

\* save_canvas.py:143-147: sleep(4), second cancellation checkpoint.
JobCheck2(j) ==
    /\ jobs[j].pc = "check2"
    /\ IF stop_thread_event
       THEN JobEnd(j, "cancelled")
       ELSE /\ jobs' = [jobs EXCEPT ![j].pc = "open"]
            /\ UNCHANGED track_changed_flag
    /\ UNCHANGED <<mainVars, stop_thread_event, files>>
    /\ UNCHANGED <<backoff, aux>>

\* save_canvas.py:150-154: discovery and open; `ser is None` returns.
JobOpen(j) ==
    /\ jobs[j].pc = "open"
    /\ \E s \in SerOutcomes :
        IF s = None
        THEN JobEnd(j, "returned")
        ELSE /\ jobs' = [jobs EXCEPT ![j].pc = "send", ![j].ser = s]
             /\ UNCHANGED track_changed_flag
    /\ UNCHANGED <<mainVars, stop_thread_event, files>>
    /\ UNCHANGED <<backoff, aux>>

\* save_canvas.py:156-164: AT+SP=current_track_gif.gif is written when the
\* connection is open (serial_operations.py:13-25); exceptions are caught;
\* the connection is closed in the finally.
JobSend(j) ==
    /\ jobs[j].pc = "send"
    /\ jobs' = [jobs EXCEPT ![j].pc = "cleanup", ![j].ser = "closed"]
    /\ UNCHANGED <<mainVars, events, files>>
    /\ UNCHANGED <<backoff, aux>>

\* save_canvas.py:166-172: delete_file of the video and the unedited GIF.
JobCleanup(j) ==
    /\ jobs[j].pc = "cleanup"
    /\ files' = files \ {MP4, GIF}
    /\ JobEnd(j, "returned")
    /\ UNCHANGED <<mainVars, stop_thread_event>>
    /\ UNCHANGED <<backoff, aux>>

Next ==
    \/ LoopTop
    \/ Poll401
    \/ PollNothing
    \/ PollPaused
    \/ PollPlaying
    \/ Dispatch
    \/ GetTrackImage
    \/ StaticPush
    \/ StaticDeleteGif
    \/ StaticRender
    \/ StaticPushAgain
    \/ SaveCanvas
    \/ LaunchJob
    \/ Interrupt
    \/ \E j \in Jobs : JobConvert(j)
    \/ \E j \in Jobs : JobCheck1(j)
    \/ \E j \in Jobs : JobOverlay(j)
    \/ \E j \in Jobs : JobGifsicle(j)
    \/ \E j \in Jobs : JobCheck2(j)
    \/ \E j \in Jobs : JobOpen(j)
    \/ \E j \in Jobs : JobSend(j)
    \/ \E j \in Jobs : JobCleanup(j)

Spec == Init /\ [][Next]_vars

\* ------------------------------------------------------------------------
\* Properties
\* ------------------------------------------------------------------------

\* The next step of the polling loop is a step of the animated pipeline of
\* the dispatch in progress: the companion-video lookup/download of
\* save_canvas, or the start of the process_canvas thread.
AnimatedStepNext == (pc = "canvas" /\ gifsicle_path) \/ pc = "launch"

\* Job j is running: its thread was started and has not ended.
Alive(j) == jobs[j].pc \notin {"none", "done"}

\* This step is job j writing AT+SP=current_track_gif.gif to an open connection.
SendStep(j) == jobs[j].pc = "send" /\ jobs[j].ser = "open" /\ jobs'[j].pc = "cleanup"

\* This step is the end of the thread of job j.
EndStep(j) == Alive(j) /\ jobs'[j].pc = "done"

\* This step is the start of the thread of job j.
StartStep(j) == jobs[j].pc = "none" /\ jobs'[j].pc = "convert"

\* Number of track changes detected so far (the last one may still be in
\* its grace sleep, before main.py:111).
Detected == gen + (IF pc = "grace" THEN 1 ELSE 0)

\* C1 (as claimed): before any animated-pipeline step of a dispatch, the
\* static composite has been written, the config updated and the device
\* push attempted, whatever the artwork fetch and the discovery returned.
C1_AsClaimed ==
    AnimatedStepNext =>
        disp.attempted /\ disp.render = "ok" /\ disp.config

\* C1 (amended): before any animated-pipeline step of a dispatch,
\* process_track_image has run: discovery and push of the static image
\* were attempted, and the composite was rendered whenever the artwork was
\* fetched (it was written unless opening the artwork or saving failed, and
\* the config is only updated after the composite was written); when the
\* artwork request failed nothing was rendered.
C1_StaticBeforeAnimated ==
    AnimatedStepNext =>
        /\ disp.attempted
        /\ disp.art \in {"ok", "request_error"}
        /\ (disp.art = "ok") <=> (disp.render # "none")
        /\ disp.config => disp.render = "ok"

\* C1 witness: the second dispatch is about to start its job thread after
\* a static step that wrote the composite and updated the config.
C1_Witness ==
    pc = "launch" /\ gen = 2 /\ disp.attempted /\ disp.render = "ok" /\ disp.config

\* C2 (as claimed): once a later track has been detected, the job of an
\* earlier track never sends AT+SP=current_track_gif.gif.
C2_NoStalePush ==
    [][\A j \in Jobs : SendStep(j) => Detected = j]_vars

\* C3 (as claimed): at most one process_canvas thread is running.
C3_AtMostOneJob ==
    Cardinality({j \in Jobs : Alive(j)}) <= 1

\* C4 (as claimed): a playing snapshot is dispatched exactly when its
\* identity (URI) differs from that of the last dispatched snapshot.
C4_ChangeByIdentity ==
    [][(pc = "polling" /\ pc' \in {"top", "grace"} /\ track_info'.is_playing)
        => ((pc' = "grace") <=> (track_info'.uri # dispatched_uri))]_vars

\* C5 (as claimed): the cancellation token is clear at the moment the
\* polling loop starts a process_canvas thread.
C5_TokenClearAtLaunch ==
    [][\A j \in Jobs : StartStep(j) => ~stop_thread_event]_vars

\* C6 (as claimed): when a job ends, on whatever path, track_video.mp4,
\* unedited_gif.gif and temp_overlay.gif do not exist.
C6_IntermediatesDeleted ==
    [][\A j \in Jobs : EndStep(j) => files' \cap Intermediates = {}]_vars

\* C7 (as claimed): a job one of whose stages failed (transcode error,
\* missing input video, non-zero gifsicle exit) sends no
\* AT+SP=current_track_gif.gif.
C7_NoPushAfterFailure ==
    [][\A j \in Jobs : SendStep(j) => ~jobs[j].stageFailed]_vars

\* C8 (as claimed): the polling loop ends only on a failed
\* re-authorization or a user interrupt.
C8_LoopSurvivesFailures ==
    exitReason \in {"none", "reauth", "interrupt"}

\* C9: an exception raised in a stage of process_canvas is caught inside
\* the job: the thread ends as cancelled, returned or failed (never with an uncaught
\* exception), track_changed_flag is clear, and the step changes nothing of
\* the polling loop, which goes on from where it was.
C9_JobErrorsContained ==
    [][\A j \in Jobs : EndStep(j) =>
            /\ jobs'[j].result \in {"cancelled", "returned", "failed"}
            /\ ~track_changed_flag'
            /\ UNCHANGED mainVars]_vars

\* C9 witness: the first job failed with an exception and the polling loop
\* has since dispatched the next track.
C9_Witness ==
    jobs[1].result = "failed" /\ gen = 2 /\ pc = "art"

\* C10: a 401 poll re-authorizes before any further poll.  When
\* authorization or the token exchange fails the loop exits from that
\* iteration without dispatching, and after the exit nothing is polled or
\* dispatched; otherwise the loop goes on with the newly obtained token and
\* the 401 iteration dispatches nothing and raises no cancellation.
C10_Reauthorize ==
    [][/\ (pc = "polling" /\ status_code' = 401) =>
            /\ pc' = "top"
            /\ access_token' \in Tokens
            /\ access_token' # access_token
            /\ UNCHANGED <<hist, current_track_name, events, jobs>>
       /\ (exitReason = "none" /\ exitReason' = "reauth") =>
            /\ pc = "polling"
            /\ pc' = "exited"
            /\ UNCHANGED <<hist, events, jobs>>
       /\ (pc = "exited") =>
            /\ pc' = "exited"
            /\ UNCHANGED <<exitReason, hist, status_code, track_info, stop_thread_event>>
      ]_vars

\* C10 witness: a 401 iteration has ended with a fresh token and the loop
\* is about to poll again.
C10_Witness ==
    pc = "top" /\ status_code = 401 /\ access_token = "tok1" /\ gen = 1

\* ------------------------------------------------------------------------
\* The serial layer, serial_operations.py, and its three callers:
\* find_busy_tag_device alone ("find"), the serial part of
\* process_track_image ("static", image_operations.py:332-361) and the push
\* step of process_canvas ("job", save_canvas.py:150-164).
\* ------------------------------------------------------------------------

\* Bound on the number of ports comports() lists.
MaxPorts == 2

\* What probing a port does (serial_operations.py:33-43):
\*   busytag       the reply to AT+GDN starts with "+DN:busytag-"
\*   other         some other reply
\*   silent        no reply within the 1 s timeout (empty line)
\*   open_error    serial.Serial raises SerialException
\*   write_error   ser.write raises SerialException after the open
\*   decode_error  the reply is not UTF-8 (UnicodeDecodeError)
PortKinds == {"busytag", "other", "silent", "open_error", "write_error", "decode_error"}

PortLists == UNION {[1..n -> PortKinds] : n \in 0..MaxPorts}

\* response.startswith("+DN:busytag-"), serial_operations.py:40
Matches(kind) == kind = "busytag"

\* Probes that raise between serial.Serial(...) and ser.close(): the
\* `continue` of line 43 skips the close of line 39.
LeavesOpen(kind) == kind \in {"write_error", "decode_error"}

Callers == {"find", "static", "job"}

\* A serial operation at its first statement.  i: index of the port being
\* probed; port: what find_busy_tag_device returned (0 for None); ser: the
\* caller's `ser`, "open" while its connection is open; probes: the ports
\* whose probe connection is still open; round: first or second push
\* of process_track_image; sent: outcome of the last send_serial_command;
\* art: process_track_image fetched an image; rendered: it rendered it.
SerialStart(op, art) ==
    [op |-> op, pc |-> "scan", i |-> 1, port |-> 0, ser |-> None, probes |-> {},
     round |-> 1, sent |-> "none", art |-> art, rendered |-> FALSE,
     result |-> "none"]

\* The polling loop at rest, as in Init, while a serial operation or a
\* config update is looked at on its own.
WidgetIdle ==
    /\ pc = "top"
    /\ exitReason = "none"
    /\ access_token = "tok0"
    /\ gifsicle_path = FALSE
    /\ current_track_name = None
    /\ track_info = NoInfo
    /\ status_code = 0
    /\ stop_thread_event = FALSE
    /\ track_changed_flag = FALSE
    /\ track_image = FALSE
    /\ ser = None
    /\ gen = 0
    /\ dispatched_uri = 0
    /\ disp = NoDisp
    /\ jobs = [j \in Jobs |-> NoJob]
    /\ files = {}
    /\ backoff = FALSE

SerialInit ==
    /\ WidgetIdle
    /\ config = NoConfig
    /\ image = NoImage
    /\ ports \in PortLists
    /\ \E op \in Callers, art \in BOOLEAN :
        /\ op # "static" => ~art
        /\ serial = SerialStart(op, art)

\* The operation returns to its caller.
SerialReturn(r) == [r EXCEPT !.pc = "done", !.result = "returned"]

\* Where the caller goes on once find_busy_tag_device has returned.
AfterScan(r) ==
    IF r.op = "find" THEN SerialReturn(r) ELSE [r EXCEPT !.pc = "open"]

SerialProbe_StopsOnError ==
    /\ serial.op \in Callers
    /\ serial.pc = "scan"
    /\ serial.i <= Len(ports)
    /\ LET kind == ports[serial.i]
       IN  serial' =
             IF Matches(kind)
             THEN AfterScan([serial EXCEPT !.port = serial.i])
             ELSE IF kind \in {"open_error", "write_error", "decode_error"}
             THEN AfterScan([serial EXCEPT !.port = 0,
                     !.probes = IF LeavesOpen(kind) THEN @ \cup {serial.i} ELSE @])
             ELSE [serial EXCEPT !.i = @ + 1]
    /\ UNCHANGED <<widget, ports, config, image>>

\* One iteration of the for loop of find_busy_tag_device,
\* serial_operations.py:33-43: open, write AT+GDN, read, close, compare.
SerialProbe ==
    /\ serial.op \in Callers
    /\ serial.pc = "scan"
    /\ serial.i <= Len(ports)
    /\ LET kind == ports[serial.i]
       IN  serial' =
             IF Matches(kind)
             THEN AfterScan([serial EXCEPT !.port = serial.i])
             ELSE [serial EXCEPT !.i = @ + 1,
                     !.probes = IF LeavesOpen(kind) THEN @ \cup {serial.i} ELSE @]
    /\ UNCHANGED <<widget, ports, config, image>>

\* serial_operations.py:44: the loop is over, `return` (None).
SerialScanEnd ==
    /\ serial.op \in Callers
    /\ serial.pc = "scan"
    /\ serial.i > Len(ports)
    /\ serial' = AfterScan([serial EXCEPT !.port = 0])
    /\ UNCHANGED <<widget, ports, config, image>>

\* Where the caller goes when `ser` is falsy or after its finally.
AfterPush(r) ==
    IF r.op = "static" /\ r.round = 1
    THEN [r EXCEPT !.pc = "render"]
    ELSE SerialReturn(r)

\* open_serial_connection(port), serial_operations.py:5-11: serial.Serial
\* of None builds an unopened object; of a port it opens the port, or
\* raises SerialException and None is returned.
SerialOpen ==
    /\ serial.pc = "open"
    /\ \E opens \in BOOLEAN :
        LET s == IF serial.port = 0 THEN "closed"
                 ELSE IF opens THEN "open" ELSE None
            r == [serial EXCEPT !.ser = s]
        IN  serial' = IF Truthy(s) THEN [r EXCEPT !.pc = "send"] ELSE AfterPush(r)
    /\ UNCHANGED <<widget, ports, config, image>>

SerialSend_NoOpenTest ==
    /\ serial.pc = "send"
    /\ \E o \in {"ok", "serial_error", "decode_error"} :
        serial' = [serial EXCEPT !.pc = "close",
            !.sent = IF serial.ser # "open" THEN "raised"
                     ELSE CASE o = "ok" -> "response"
                            [] o = "serial_error" -> "unavailable"
                            [] OTHER -> "raised"]
    /\ UNCHANGED <<widget, ports, config, image>>

\* send_serial_command(ser, command), serial_operations.py:13-25, called in
\* the try of image_operations.py:335 / save_canvas.py:156.  On a
\* connection that is not open it returns None; SerialException is caught
\* and gives None; a reply that cannot be decoded raises out of the
\* function and is caught by the caller's `except Exception`.
SerialSend ==
    /\ serial.pc = "send"
    /\ \E o \in {"ok", "serial_error", "decode_error"} :
        serial' = [serial EXCEPT !.pc = "close",
            !.sent = IF serial.ser # "open" THEN "unavailable"
                     ELSE CASE o = "ok" -> "response"
                            [] o = "serial_error" -> "unavailable"
                            [] OTHER -> "raised"]
    /\ UNCHANGED <<widget, ports, config, image>>

\* close_serial_connection(ser) in the caller's finally,
\* image_operations.py:343-344, 360-361 and save_canvas.py:163-164.
SerialClose ==
    /\ serial.pc = "close"
    /\ serial' = AfterPush([serial EXCEPT !.ser = "closed"])
    /\ UNCHANGED <<widget, ports, config, image>>

\* image_operations.py:346-353: render when an image was fetched, then
\* the second push when the first `ser` was an object.
SerialRender ==
    /\ serial.pc = "render"
    /\ serial' =
        IF ~serial.art THEN SerialReturn(serial)
        ELSE IF Truthy(serial.ser)
        THEN [serial EXCEPT !.rendered = TRUE, !.round = 2, !.pc = "scan", !.i = 1,
                            !.port = 0]
        ELSE SerialReturn([serial EXCEPT !.rendered = TRUE])
    /\ UNCHANGED <<widget, ports, config, image>>

\* A probe connection that was left open is unreferenced once `ser` is
\* rebound or the function returns; whether and when its finalizer closes
\* it is up to the interpreter.
SerialFinalize ==
    /\ serial.op \in Callers
    /\ \E c \in serial.probes :
        serial' = [serial EXCEPT !.probes = @ \ {c}]
    /\ UNCHANGED <<widget, ports, config, image>>

SerialNext ==
    \/ SerialProbe
    \/ SerialScanEnd
    \/ SerialOpen
    \/ SerialSend
    \/ SerialClose
    \/ SerialRender
    \/ SerialFinalize

SerialSpec == SerialInit /\ [][SerialNext]_vars

\* First port of the list whose reply matches, 0 when none does.
FirstMatch(ps) ==
    IF \E k \in 1..Len(ps) : Matches(ps[k])
    THEN CHOOSE k \in 1..Len(ps) :
            Matches(ps[k]) /\ \A m \in 1..(k - 1) : ~Matches(ps[m])
    ELSE 0

\* find_busy_tag_device has returned in the operation in progress.
ScanOver == serial.op \in Callers /\ serial.pc # "scan"

C16_FirstMatchingPort ==
    /\ ScanOver => serial.port = FirstMatch(ports)
    /\ (serial.op \in Callers /\ serial.pc = "scan") =>
            \A k \in 1..(serial.i - 1) : ~Matches(ports[k])
    /\ ScanOver => ((serial.port = 0) <=> (\A k \in 1..Len(ports) : ~Matches(ports[k])))

\* C16 witness: find_busy_tag_device returned the second port after a
\* first port whose probe raised.
C16_Witness ==
    /\ serial.op = "find" /\ serial.pc = "done" /\ serial.port = 2
    /\ ports[1] \in {"open_error", "decode_error"}

\* C17 (as claimed): when the operation returns, every connection it
\* opened has been closed.
C17_NoConnectionLeftOpen ==
    (serial.op \in Callers /\ serial.pc = "done") =>
        (serial.probes = {} /\ serial.ser # "open")

\* ------------------------------------------------------------------------
\* config.json on the device volume: update_busytag_config,
\* image_operations.py:86-150, as called from create_image_with_text,
\* image_operations.py:196-209.
\* ------------------------------------------------------------------------

\* Bound on the number of members of the JSON object config.json holds
\* before the first update (the same key may occur twice in the text).
MaxMembers == 2

\* JSON values.  An object is the sequence of its <<key, value>> members in
\* order; the other values carry their literal text.
Str(t) == [type |-> "string", text |-> t, obj |-> << >>]
Num(t) == [type |-> "number", text |-> t, obj |-> << >>]
Bool(b) == [type |-> "bool", text |-> IF b THEN "true" ELSE "false", obj |-> << >>]
Null == [type |-> "null", text |-> "null", obj |-> << >>]
EmptyArray == [type |-> "array", text |-> "[]", obj |-> << >>]
Obj(ms) == [type |-> "object", text |-> "", obj |-> ms]

\* dict operations on a sequence of members: `k in d`, d[k], d[k] = v.
\* Get reads the last member of that key, as a JSON reader does for a
\* text with a repeated key.
Keys(d) == {d[n][1] : n \in 1..Len(d)}
Has(d, k) == k \in Keys(d)
Get(d, k) == d[CHOOSE n \in 1..Len(d) :
                    d[n][1] = k /\ \A m \in (n + 1)..Len(d) : d[m][1] # k][2]
Put(d, k, v) ==
    IF Has(d, k)
    THEN [n \in 1..Len(d) |-> IF d[n][1] = k THEN <<k, v>> ELSE d[n]]
    ELSE Append(d, <<k, v>>)

\* json.loads of an object, image_operations.py:104: members in order of
\* first occurrence, a repeated key keeps its last value; nested objects
\* likewise.
RECURSIVE json_loads(_)
json_loads(ms) ==
    IF ms = << >> THEN << >>
    ELSE LET last == ms[Len(ms)]
             v == last[2]
             parsed == IF v.type = "object"
                       THEN Obj(json_loads(v.obj)) ELSE v
         IN  Put(json_loads(SubSeq(ms, 1, Len(ms) - 1)), last[1], parsed)

\* json.dump, image_operations.py:139-140: the text of the dict.
json_dump(d) == [kind |-> "object", members |-> d]

\* The file name create_image_with_text passes, image_operations.py:209
\* with the argument of main.py's call.
ImageFile == "current_track_image.png"

\* Tracks whose artwork is rendered, and the colour get_album_led_color
\* derives from each, color_extractor.py:194-224.
Tracks == {1, 2}
Colour(t) == IF t = 1 THEN "AA0000" ELSE "00BB00"

\* Members config.json may hold before the first update: the fields the
\* program writes, a field it only creates ("disp_brightness") and a
\* field it does not know ("wifi").
SolidColors ==
    { Obj(<< <<"led_bits", Num("5")>>, <<"color", Str("0000CC")>> >>),
      Obj(<< <<"led_bits", Num("5")>>, <<"color", Str("0000CC")>>,
             <<"mode", Str("fade")>> >>),
      Obj(<< <<"mode", Str("fade")>> >>),
      Null }
Members ==
    {<<"image", Str("old.png")>>, <<"image", Str(ImageFile)>>,
     <<"activate_pattern", Bool(TRUE)>>, <<"activate_pattern", Bool(FALSE)>>,
     <<"pattern_repeat", Num("3")>>, <<"custom_pattern_arr", EmptyArray>>,
     <<"disp_brightness", Num("50")>>, <<"wifi", Str("home")>>}
        \cup {<<"solid_color", sc>> : sc \in SolidColors}

\* What open(config_path, 'r').read() and json.loads find:
\*   missing, unreadable   open or read raises
\*   malformed             the text is not JSON (JSONDecodeError)
\*   scalar                JSON, but not an object
\*   object                a JSON object
NoMembers == << >>
InitialFiles ==
    {[kind |-> k, members |-> NoMembers] :
            k \in {"missing", "unreadable", "malformed", "scalar"}}
        \cup {[kind |-> "object", members |-> ms] :
                ms \in UNION {[1..n -> Members] : n \in 0..MaxMembers}}

\* What open(config_path, 'w') and json.dump do, image_operations.py:139-142:
\* ok; the open raises and the file is untouched; the open truncates
\* the file and the dump or the flush raises.
WriteOutcomes == {"ok", "open_fails", "partial"}

\* image_operations.py:109-116, the record built on JSONDecodeError.
DefaultConfig(image_filename) ==
    << <<"version", Num("3")>>, <<"image", Str(image_filename)>>,
       <<"show_after_drop", Bool(TRUE)>>, <<"allow_usb_msc", Bool(TRUE)>>,
       <<"allow_file_server", Bool(FALSE)>>, <<"disp_brightness", Num("100")>> >>

ParseOrDefault_Empty(file, image_filename) ==
    IF file.kind = "malformed" THEN << >> ELSE json_loads(file.members)

\* image_operations.py:103-116
ParseOrDefault(file, image_filename) ==
    IF file.kind = "malformed"
    THEN DefaultConfig(image_filename)
    ELSE json_loads(file.members)

\* image_operations.py:121-129: fields added when they are missing.
EnsureFields(c) ==
    LET c1 == IF Has(c, "solid_color") THEN c
              ELSE Put(c, "solid_color",
                       Obj(<< <<"led_bits", Num("0")>>, <<"color", Str("000000")>> >>))
        c2 == IF Has(c1, "activate_pattern") THEN c1
              ELSE Put(c1, "activate_pattern", Bool(FALSE))
        c3 == IF Has(c2, "pattern_repeat") THEN c2
              ELSE Put(c2, "pattern_repeat", Num("0"))
    IN  IF Has(c3, "custom_pattern_arr") THEN c3
        ELSE Put(c3, "custom_pattern_arr", EmptyArray)

SetLed_ReplacesBlock(c, led_color) ==
    Put(Put(c, "solid_color",
            Obj(<< <<"led_bits", Num("127")>>, <<"color", Str(led_color)>> >>)),
        "activate_pattern", Bool(FALSE))

\* image_operations.py:132-135, on a solid_color that is an object.
SetLed(c, led_color) ==
    LET sc == Get(c, "solid_color").obj
    IN  Put(Put(c, "solid_color",
                Obj(Put(Put(sc, "led_bits", Num("127")), "color", Str(led_color)))),
            "activate_pattern", Bool(FALSE))

update_busytag_config_CreatesMissing(file, image_filename, led_color, w) ==
    LET failed == [file |-> file, ret |-> FALSE]
        found == IF file.kind \in {"missing", "unreadable"}
                 THEN [kind |-> "malformed", members |-> NoMembers]
                 ELSE file
    IN  IF file.kind = "scalar" THEN failed
        ELSE
          LET c == EnsureFields(Put(ParseOrDefault(found, image_filename),
                                    "image", Str(image_filename)))
          IN  IF led_color # None /\ Get(c, "solid_color").type # "object"
              THEN failed
              ELSE CASE w = "ok" ->
                          [file |-> json_dump(IF led_color # None
                                              THEN SetLed(c, led_color) ELSE c),
                           ret |-> TRUE]
                     [] w = "open_fails" -> failed
                     [] OTHER ->
                          [file |-> [kind |-> "malformed", members |-> NoMembers],
                           ret |-> FALSE]

\* update_busytag_config(volume_path, image_filename, led_color),
\* image_operations.py:86-150, on the file `file` with write outcome w:
\* the file afterwards and the value returned.  Every exception ends in the
\* `except Exception` of line 148: a failed read, a subscript on a value
\* that is not an object, a failed write.
update_busytag_config(file, image_filename, led_color, w) ==
    LET failed == [file |-> file, ret |-> FALSE]
    IN  IF file.kind \in {"missing", "unreadable", "scalar"} THEN failed
        ELSE
          LET c == EnsureFields(Put(ParseOrDefault(file, image_filename),
                                    "image", Str(image_filename)))
          IN  IF led_color # None /\ Get(c, "solid_color").type # "object"
              THEN failed
              ELSE CASE w = "ok" ->
                          [file |-> json_dump(IF led_color # None
                                              THEN SetLed(c, led_color) ELSE c),
                           ret |-> TRUE]
                     [] w = "open_fails" -> failed
                     [] OTHER ->
                          [file |-> [kind |-> "malformed", members |-> NoMembers],
                           ret |-> FALSE]

\* file: config.json; track: the track whose image was rendered last (0
\* before the first); led_color: what the extraction gave for it; read:
\* the file as the last update found it; w: how its write went; ret: what
\* it returned.
ConfigInit ==
    /\ WidgetIdle
    /\ ports = << >>
    /\ serial = NoSerial
    /\ image = NoImage
    /\ \E f \in InitialFiles :
        config = [file |-> f, pc |-> "idle", track |-> 0, led_color |-> None,
                  read |-> f, w |-> "none", ret |-> FALSE]

\* create_image_with_text up to the colour extraction,
\* image_operations.py:196-206: the image of track t is saved, then
\* get_album_led_color gives its colour or raises and led_color is None.
ConfigRender ==
    /\ config.pc \in {"idle", "done"}
    /\ \E t \in Tracks : \E led \in {Colour(t), None} :
        config' = [config EXCEPT !.pc = "update", !.track = t, !.led_color = led]
    /\ UNCHANGED <<widget, ports, serial, image>>

\* image_operations.py:209, the call of update_busytag_config.
ConfigUpdate ==
    /\ config.pc = "update"
    /\ \E w \in WriteOutcomes :
        LET r == update_busytag_config(config.file, ImageFile, config.led_color, w)
        IN  config' = [config EXCEPT !.pc = "done", !.file = r.file, !.ret = r.ret,
                                     !.read = config.file, !.w = w]
    /\ UNCHANGED <<widget, ports, serial, image>>

ConfigNext ==
    \/ ConfigRender
    \/ ConfigUpdate

ConfigSpec == ConfigInit /\ [][ConfigNext]_vars

\* A config.json of the device's shape: a JSON object whose solid_color,
\* when present, is an object.
WellFormed(file) ==
    /\ file.kind = "object"
    /\ Has(file.members, "solid_color") =>
            Get(file.members, "solid_color").type = "object"

\* The LED fields of the dict c are those written for led_color.
LedFieldsSet(c, led_color) ==
    /\ Has(c, "solid_color") /\ Has(c, "activate_pattern")
    /\ Get(c, "solid_color").type = "object"
    /\ LET sc == Get(c, "solid_color").obj
       IN  /\ Has(sc, "led_bits") /\ Has(sc, "color")
           /\ Get(sc, "led_bits") = Num("127")
           /\ Get(sc, "color") = Str(led_color)
    /\ Get(c, "activate_pattern") = Bool(FALSE)

\* An update of a readable file whose write succeeded happens in this step.
UpdateWritten ==
    config.pc = "update" /\ config'.pc = "done" /\ config'.w = "ok"

\* C18: an update of a well-formed config.json that can be read and
\* written returns True and leaves an object in which image is the given
\* file name, the LED fields are set when a colour is given, and every
\* other key that was present (unknown keys and the other keys inside
\* solid_color included) has the value it had.
C18_OnlyImageAndLed ==
    [][(UpdateWritten /\ WellFormed(config.file)) =>
        /\ config'.ret
        /\ config'.file.kind = "object"
        /\ LET old == json_loads(config.file.members)
               new == json_loads(config'.file.members)
               led == config.led_color
           IN  /\ Keys(old) \subseteq Keys(new)
               /\ Has(new, "image") /\ Get(new, "image") = Str(ImageFile)
               /\ led # None => LedFieldsSet(new, led)
               /\ \A k \in Keys(old) \ {"image"} :
                    IF led = None \/ k \notin {"solid_color", "activate_pattern"}
                    THEN Get(new, k) = Get(old, k)
                    ELSE k = "solid_color" =>
                          LET o == Get(old, k).obj
                              n == Get(new, k).obj
                          IN  /\ Keys(o) \subseteq Keys(n)
                              /\ \A kk \in Keys(o) \ {"led_bits", "color"} :
                                    Get(n, kk) = Get(o, kk)]_vars

\* C18 witness: an update with a colour was written over a config that
\* held an unknown key, and its solid_color still holds its own extra key.
C18_Witness ==
    /\ config.pc = "done" /\ config.ret /\ config.led_color # None
    /\ config.read.kind = "object" /\ config.file.kind = "object"
    /\ Has(config.read.members, "wifi") /\ Has(config.file.members, "wifi")
    /\ Has(config.read.members, "solid_color")
    /\ Has(config.file.members, "solid_color")
    /\ Has(Get(config.file.members, "solid_color").obj, "mode")

\* The keys of the record written over a malformed config.json.
DefaultKeys ==
    {"version", "image", "show_after_drop", "allow_usb_msc", "allow_file_server",
     "disp_brightness", "solid_color", "activate_pattern", "pattern_repeat",
     "custom_pattern_arr"}

\* C19: an update of a config.json that is not valid JSON, when the write
\* succeeds, returns True and leaves the default record with the image
\* file name and, when a colour is given, the LED fields applied.
C19_MalformedReplaced ==
    [][(UpdateWritten /\ config.file.kind = "malformed") =>
        /\ config'.ret
        /\ config'.file.kind = "object"
        /\ LET new == config'.file.members
               led == config.led_color
           IN  /\ Keys(new) = DefaultKeys
               /\ Len(new) = Cardinality(DefaultKeys)
               /\ Get(new, "version") = Num("3")
               /\ Get(new, "image") = Str(ImageFile)
               /\ Get(new, "show_after_drop") = Bool(TRUE)
               /\ Get(new, "allow_usb_msc") = Bool(TRUE)
               /\ Get(new, "allow_file_server") = Bool(FALSE)
               /\ Get(new, "disp_brightness") = Num("100")
               /\ Get(new, "pattern_repeat") = Num("0")
               /\ Get(new, "custom_pattern_arr") = EmptyArray
               /\ IF led # None THEN LedFieldsSet(new, led)
                  ELSE /\ Get(new, "activate_pattern") = Bool(FALSE)
                       /\ Get(new, "solid_color") =
                            Obj(<< <<"led_bits", Num("0")>>,
                                   <<"color", Str("000000")>> >>)]_vars

\* C19 witness: an update with a colour has replaced a malformed
\* config.json and returned True.
C19_Witness ==
    /\ config.pc = "done" /\ config.ret /\ config.led_color # None
    /\ config.read.kind = "malformed" /\ config.file.kind = "object"

\* C20 (as claimed): after an update written for a track, the colour in
\* config.json is the colour derived from that track's artwork.
C20_ColourOfCurrentTrack ==
    (config.pc = "done" /\ config.ret) =>
        /\ config.file.kind = "object"
        /\ Has(config.file.members, "solid_color")
        /\ LET sc == Get(config.file.members, "solid_color")
           IN  /\ sc.type = "object"
               /\ Has(sc.obj, "color")
               /\ Get(sc.obj, "color") = Str(Colour(config.track))

\* C11 (as claimed): a poll that reports no track (204, or 200 without an
\* item) or an ad is followed by the 10 s back-off and dispatches nothing;
\* a transient error keeps the normal cadence and dispatches nothing.
C11_BackoffOnNoTrack ==
    [][(pc = "polling" /\ track_info' = NoInfo /\ pc' = "top") =>
            /\ status_code' \in {200, 204} => backoff'
            /\ status_code' = 0 => ~backoff'
            /\ UNCHANGED <<hist, events, jobs>>]_vars

\* C12: a process_canvas thread is started only by the dispatch in
\* progress, only when gifsicle was found at start-up and save_canvas
\* returned True; when save_canvas returns False (or gifsicle is missing)
\* the iteration ends with no thread started and the loop goes on polling;
\* a job exists only for a dispatch that launched it.
C12_LaunchOnlyWithCanvas ==
    [][/\ \A j \in Jobs : StartStep(j) =>
            gifsicle_path /\ pc = "launch" /\ j = gen /\ disp.canvas = "ok"
       /\ pc = "launch" => disp.canvas = "ok"
       /\ (pc = "canvas" /\ pc' = "top") => (jobs' = jobs /\ exitReason' = "none")
       /\ (pc = "canvas" /\ ~gifsicle_path /\ pc' # pc) => (pc' \in {"top", "exited"} /\ jobs' = jobs)
       /\ \A j \in Jobs : jobs[j].pc # "none" => (gifsicle_path /\ j <= gen)
      ]_vars

\* C12 witness: the first dispatch ended without a job although gifsicle
\* is available, and the loop is about to poll again.
C12_Witness ==
    /\ pc = "top" /\ gen = 1 /\ gifsicle_path /\ jobs[1].pc = "none"
    /\ track_info.is_playing /\ track_info.uri = dispatched_uri

\* The working files the stage in progress of job j reads or writes.
InUse(j) ==
    CASE jobs[j].pc = "convert"  -> {MP4, GIF}
      [] jobs[j].pc = "overlay"  -> {GIF}
      [] jobs[j].pc = "gifsicle" -> {OUT}
      [] OTHER                   -> {}

\* The working files this step of job k writes or deletes.
JobTouches(k) ==
    CASE jobs[k].pc = "convert" /\ jobs'[k].pc = "check1" /\ ~jobs'[k].stageFailed -> {GIF}
      [] jobs[k].pc = "gifsicle" /\ jobs'[k].pc = "check2"
            /\ jobs'[k].stageFailed = jobs[k].stageFailed -> {OUT}
      [] jobs[k].pc = "cleanup" /\ jobs'[k].pc = "done" -> {MP4, GIF}
      [] OTHER -> {}

\* This step is download_canvas writing track_video.mp4 for the dispatch in progress.
DownloadStep == pc = "canvas" /\ pc' = "launch"

\* C13 (as claimed): the download of a new track's video never writes
\* track_video.mp4 while an earlier job is reading it, and a job never
\* writes or deletes a working file that the running stage of an earlier
\* job is reading or writing.
C13_FilesHeldByOne ==
    [][/\ DownloadStep => \A j \in Jobs : MP4 \notin InUse(j)
       /\ \A k \in Jobs : \A j \in 1..(k - 1) : JobTouches(k) \cap InUse(j) = {}
      ]_vars

\* C14 (as claimed): at each of the three stage boundaries (before
\* transcoding, before background and compositing, before the push) a job
\* that finds the token set ends there: no further stage, no file written.
C14_PollAtEveryBoundary ==
    [][\A j \in Jobs :
        (jobs[j].pc \in {"convert", "check1", "check2"} /\ stop_thread_event
            /\ jobs'[j] # jobs[j])
        => (jobs'[j].pc = "done" /\ jobs'[j].result = "cancelled" /\ files' = files)]_vars

\* C14 (amended): process_canvas polls the token at two stage boundaries,
\* after transcoding and after compositing/optimizing (before the push); a
\* job that finds the token set there ends at once, writing no file, and a
\* job that has ended takes no further step, so it sends nothing.
C14_PollAtTwoBoundaries ==
    [][\A j \in Jobs :
        /\ (jobs[j].pc \in {"check1", "check2"} /\ stop_thread_event
                /\ jobs'[j] # jobs[j])
            => (jobs'[j].pc = "done" /\ jobs'[j].result = "cancelled" /\ files' = files)
        /\ jobs'[j].result = "cancelled" /\ jobs[j].result # "cancelled"
            => (jobs[j].pc \in {"check1", "check2"} /\ stop_thread_event)
        /\ jobs[j].pc = "done" => jobs'[j] = jobs[j]]_vars

\* C14 witness: the first job observed the token at a checkpoint and ended.
C14_Witness ==
    jobs[1].pc = "done" /\ jobs[1].result = "cancelled"

\* ------------------------------------------------------------------------
\* The text layout: handle_image_text, image_operations.py:35-84, as called
\* by create_image_with_text (static path, line 177) and by
\* create_background_with_text (animated path, line 231).
\* ------------------------------------------------------------------------

\* Bound on the number of runs of equal characters a generated name has.
MaxRuns == 3

\* A string is the sequence of its characters.
Run(c, n) == [k \in 1..n |-> c]
RunLens == {1, 4, 12, 13, 16, 17, 20, 21}
Runs == {Run(c, n) : c \in {"a", " "}, n \in RunLens}

RECURSIVE Concat(_)
Concat(ss) == IF ss = << >> THEN << >> ELSE Head(ss) \o Concat(Tail(ss))

\* The literal "(feat." of image_operations.py:47 and a suffix that holds it.
Marker == <<"(", "f", "e", "a", "t", ".">>
FeatSuffix == <<" ">> \o Marker \o <<" ", "b", ")">>

BohemianRhapsody ==
    <<"B", "o", "h", "e", "m", "i", "a", "n", " ",
      "R", "h", "a", "p", "s", "o", "d", "y">>

\* Track names a snapshot may carry.
PlainNames == {Concat(rs) : rs \in UNION {[1..n -> Runs] : n \in 1..MaxRuns}}
TrackNames ==
    PlainNames \cup {n \o FeatSuffix : n \in PlainNames}
        \cup {BohemianRhapsody, BohemianRhapsody \o FeatSuffix, Marker}

\* t[lo:hi] for 0 <= lo and 0 <= hi: a slice stops at the end of the string.
Slice(t, lo, hi) ==
    LET top == IF hi < Len(t) THEN hi ELSE Len(t)
    IN  IF lo >= top THEN << >> ELSE SubSeq(t, lo + 1, top)

\* str.strip(), for strings whose only whitespace is the space.
RECURSIVE LStrip(_)
LStrip(t) == IF t # << >> /\ Head(t) = " " THEN LStrip(Tail(t)) ELSE t
RECURSIVE RStrip(_)
RStrip(t) ==
    IF t # << >> /\ t[Len(t)] = " " THEN RStrip(SubSeq(t, 1, Len(t) - 1)) ELSE t
Strip(t) == LStrip(RStrip(t))

\* Index of the first occurrence of the marker in t, 0 when there is none.
FindMarker(t) ==
    LET at == {k \in 1..(Len(t) - Len(Marker) + 1) :
                    SubSeq(t, k, k + Len(Marker) - 1) = Marker}
    IN  IF at = {} THEN 0 ELSE CHOOSE k \in at : \A m \in at : k <= m

\* image_operations.py:47-48: track_name.split("(feat.")[0].strip()
DisplayedName(track_name) ==
    IF FindMarker(track_name) # 0
    THEN Strip(SubSeq(track_name, 1, FindMarker(track_name) - 1))
    ELSE track_name

FontSizes_SecondTierTo17(name) ==
    IF Len(name) < 13 THEN [track |-> 24, artist |-> 18]
    ELSE IF 13 <= Len(name) /\ Len(name) <= 17 THEN [track |-> 20, artist |-> 14]
    ELSE IF 17 < Len(name) /\ Len(name) <= 20 THEN [track |-> 16, artist |-> 12]
    ELSE [track |-> 16, artist |-> 10]

\* image_operations.py:50-61: track_font_size and artist_font_size.
FontSizes(name) ==
    IF Len(name) < 13 THEN [track |-> 24, artist |-> 18]
    ELSE IF 13 <= Len(name) /\ Len(name) <= 16 THEN [track |-> 20, artist |-> 14]
    ELSE IF 16 < Len(name) /\ Len(name) <= 20 THEN [track |-> 16, artist |-> 12]
    ELSE [track |-> 16, artist |-> 10]

NeedsWrap_Over16(name) == Len(name) > 16

\* image_operations.py:69
NeedsWrap(name) == Len(name) > 20

SplitIndex_FirstSpace(name) ==
    LET at == {k \in 0..20 : k < Len(name) /\ name[k + 1] = " "}
    IN  IF at = {} THEN 20 ELSE CHOOSE k \in at : \A m \in at : k <= m

\* image_operations.py:70-72: track_name.rfind(' ', 0, 21), the highest
\* index (from 0) below 21 that holds a space, and 20 when rfind gives -1.
SplitIndex(name) ==
    LET at == {k \in 0..20 : k < Len(name) /\ name[k + 1] = " "}
    IN  IF at = {} THEN 20 ELSE CHOOSE k \in at : \A m \in at : m <= k

\* image_operations.py:69-82: the lines drawn for the track name.
Lines(name) ==
    IF NeedsWrap(name)
    THEN <<Slice(name, 0, SplitIndex(name)),
           Strip(Slice(name, SplitIndex(name), Len(name)))>>
    ELSE <<name>>

\* handle_image_text on a snapshot: nothing is drawn without a name
\* (lines 40-43); otherwise the displayed name, the font sizes and the
\* lines.
handle_image_text(has_name, track_name) ==
    IF ~has_name
    THEN [drawn |-> FALSE, shown |-> << >>, track_font_size |-> 0,
          artist_font_size |-> 0, lines |-> << >>]
    ELSE LET name == DisplayedName(track_name)
         IN  [drawn |-> TRUE, shown |-> name,
              track_font_size |-> FontSizes(name).track,
              artist_font_size |-> FontSizes(name).artist,
              lines |-> Lines(name)]

TextInit ==
    /\ WidgetIdle
    /\ ports = << >>
    /\ serial = NoSerial
    /\ config = NoConfig
    /\ \E has_name \in BOOLEAN, track_name \in TrackNames :
        /\ ~has_name => track_name = Marker
        /\ image = [op |-> "text", pc |-> "start", path |-> "none",
                    has_name |-> has_name, track_name |-> track_name,
                    text |-> handle_image_text(FALSE, track_name)]

\* The text step of one rendering path.
DrawText(path) ==
    /\ image.op = "text"
    /\ image.pc = "start"
    /\ image' = [image EXCEPT !.pc = "done", !.path = path,
                    !.text = handle_image_text(image.has_name, image.track_name)]
    /\ UNCHANGED <<widget, ports, serial, config>>

\* create_image_with_text, image_operations.py:152-177
CreateImageWithText == DrawText("static")

\* create_background_with_text, image_operations.py:217-231
CreateBackgroundWithText == DrawText("animated")

TextNext ==
    \/ CreateImageWithText
    \/ CreateBackgroundWithText

TextSpec == TextInit /\ [][TextNext]_vars

\* The name of a snapshot has been laid out.
TextDrawn == image.op = "text" /\ image.pc = "done" /\ image.text.drawn

\* The characters of t that are not spaces, in order.
NonSpace(t) == SelectSeq(t, LAMBDA c : c # " ")

\* C21: on either path the font sizes depend on the length L of the
\* displayed name only: 24/18 for L <= 12, 20/14 for 13..16, 16/12 for
\* 17..20; the displayed name is the track name, or its stripped part
\* before "(feat." when it holds that marker.
C21_FontTierByLength ==
    TextDrawn =>
        LET L == Len(image.text.shown)
            sizes == <<image.text.track_font_size, image.text.artist_font_size>>
            at == FindMarker(image.track_name)
        IN  /\ L <= 12 => sizes = <<24, 18>>
            /\ (13 <= L /\ L <= 16) => sizes = <<20, 14>>
            /\ (17 <= L /\ L <= 20) => sizes = <<16, 12>>
            /\ at = 0 => image.text.shown = image.track_name
            /\ at # 0 =>
                /\ FindMarker(image.text.shown) = 0
                /\ image.text.shown = Strip(image.text.shown)
                /\ NonSpace(image.text.shown)
                        = NonSpace(SubSeq(image.track_name, 1, at - 1))

\* C21 witness: the animated path laid out a name with a "(feat." part
\* whose displayed part has 13 characters, in the second tier.
C21_Witness ==
    /\ TextDrawn /\ image.path = "animated"
    /\ FindMarker(image.track_name) # 0
    /\ Len(image.text.shown) = 13
    /\ image.text.track_font_size = 20

\* C22: the name is drawn on two lines exactly when it has more than 20
\* characters; the first line then ends before the last space among the
\* first 21 characters, or after 20 characters when there is none, so it
\* never has more than 20; and the two lines hold every non-space
\* character of the name in order.
C22_WrapAtLastSpace ==
    TextDrawn =>
        LET name == image.text.shown
            lines == image.text.lines
            spaces == {k \in 0..20 : k < Len(name) /\ name[k + 1] = " "}
        IN  /\ (Len(lines) = 2) <=> (Len(name) > 20)
            /\ Len(name) <= 20 => lines = <<name>>
            /\ Len(name) > 20 =>
                LET k == Len(lines[1])
                IN  /\ k <= 20
                    /\ lines[1] = SubSeq(name, 1, k)
                    /\ IF spaces = {} THEN k = 20
                       ELSE k \in spaces /\ \A m \in spaces : m <= k
                    /\ NonSpace(lines[1] \o lines[2]) = NonSpace(name)
                    /\ lines[2] = Strip(lines[2])

\* C22 witness: a name of more than 20 characters was split at a space
\* that is not its first one, into two lines that are not empty.
C22_Witness ==
    /\ TextDrawn /\ Len(image.text.lines) = 2
    /\ Len(image.text.lines[1]) \in 1..19
    /\ \E k \in 1..Len(image.text.lines[1]) : image.text.lines[1][k] = " "
    /\ image.text.lines[2] # << >>

\* C23 (as claimed): the name "Bohemian Rhapsody" counts as longer than 20
\* characters and is drawn on two lines.
C23_BohemianWrapped ==
    (TextDrawn /\ image.track_name = BohemianRhapsody) =>
        /\ Len(image.text.shown) > 20
        /\ Len(image.text.lines) = 2

\* C23 (amended): the name "Bohemian Rhapsody" has 17 characters; it is
\* drawn on one line, in the third tier (16/12).
C23_BohemianOneLine ==
    (TextDrawn /\ image.track_name = BohemianRhapsody) =>
        /\ Len(image.text.shown) = 17
        /\ image.text.lines = <<BohemianRhapsody>>
        /\ image.text.track_font_size = 16
        /\ image.text.artist_font_size = 12

\* C23 witness: the static path has laid out "Bohemian Rhapsody".
C23_Witness ==
    /\ TextDrawn /\ image.path = "static"
    /\ image.track_name = BohemianRhapsody
    /\ Len(image.text.lines) = 1

\* ------------------------------------------------------------------------
\* The LED colour: color_extractor.py
\* ------------------------------------------------------------------------

\* Bound on the number of pixels of an image.
MaxPixels == 3

\* Colours at the thresholds of the two filters: channel sums 60 and 705
\* (averages 20 and 235), saturation exactly 0.5, value either side of 0.3.
Palette ==
    {<<255, 0, 0>>, <<20, 20, 20>>, <<235, 235, 235>>, <<21, 20, 20>>,
     <<100, 50, 50>>, <<100, 49, 49>>, <<76, 0, 0>>, <<77, 0, 0>>}

\* The pixels of the resized image in getdata() order; edge marks a pixel
\* of the 5-pixel margin that get_dominant_color crops away (lines
\* 102-109).  The crop leaves pixels.
Images ==
    {img \in UNION {[1..n -> [rgb : Palette, edge : BOOLEAN]] : n \in 1..MaxPixels} :
        \E k \in 1..Len(img) : ~img[k].edge}

RgbOf(img) == [k \in 1..Len(img) |-> img[k].rgb]
Cropped(img) == RgbOf(SelectSeq(img, LAMBDA px : ~px.edge))

Count(ps, p) == Cardinality({k \in 1..Len(ps) : ps[k] = p})

MostCommon_LastWins(ps) ==
    ps[CHOOSE k \in 1..Len(ps) :
        /\ \A m \in 1..Len(ps) : Count(ps, ps[m]) <= Count(ps, ps[k])
        /\ \A m \in 1..Len(ps) :
              Count(ps, ps[m]) = Count(ps, ps[k]) => m <= k]

\* Counter(ps).most_common(n)[0][0], color_extractor.py:124-130 and
\* 164-165: the most frequent element, the first encountered among equals.
MostCommon(ps) ==
    ps[CHOOSE k \in 1..Len(ps) :
        /\ \A m \in 1..Len(ps) : Count(ps, ps[m]) <= Count(ps, ps[k])
        /\ \A m \in 1..Len(ps) :
              Count(ps, ps[m]) = Count(ps, ps[k]) => k <= m]

\* color_extractor.py:117: 20 < sum(pixel) / 3 < 235
NotExtreme(p) == 60 < p[1] + p[2] + p[3] /\ p[1] + p[2] + p[3] < 705

\* get_dominant_color, color_extractor.py:82-130
get_dominant_color(img) ==
    LET pixels == Cropped(img)
        filtered_pixels == SelectSeq(pixels, NotExtreme)
    IN  MostCommon(IF filtered_pixels = << >> THEN pixels ELSE filtered_pixels)

Max3(p) == CHOOSE x \in {p[1], p[2], p[3]} : \A y \in {p[1], p[2], p[3]} : y <= x
Min3(p) == CHOOSE x \in {p[1], p[2], p[3]} : \A y \in {p[1], p[2], p[3]} : x <= y

IsVibrant_AtLeastHalf(p) ==
    /\ Max3(p) > 0
    /\ 2 * (Max3(p) - Min3(p)) >= Max3(p)
    /\ 10 * Max3(p) > 3 * 255

\* color_extractor.py:152-156: s > 0.5 and v > 0.3 with colorsys.rgb_to_hsv
\* on channels divided by 255: v = max / 255, s = (max - min) / max.
IsVibrant(p) ==
    /\ Max3(p) > 0
    /\ 2 * (Max3(p) - Min3(p)) > Max3(p)
    /\ 10 * Max3(p) > 3 * 255

\* get_vibrant_color, color_extractor.py:133-165
get_vibrant_color(img) ==
    LET vibrant_pixels == SelectSeq(RgbOf(img), IsVibrant)
    IN  IF vibrant_pixels = << >> THEN get_dominant_color(img)
        ELSE MostCommon(vibrant_pixels)

HexDigits ==
    <<"0", "1", "2", "3", "4", "5", "6", "7", "8", "9", "A", "B", "C", "D", "E", "F">>

\* '{:02X}'.format(n) for 0 <= n <= 255
Hex2(n) == <<HexDigits[(n \div 16) + 1], HexDigits[(n % 16) + 1]>>

\* rgb_to_hex, color_extractor.py:15-25
rgb_to_hex(rgb) == Hex2(rgb[1]) \o Hex2(rgb[2]) \o Hex2(rgb[3])

\* The modes looked at: the one the program passes (image_operations.py:201),
\* 'dominant', and a mode get_album_led_color does not know.
Modes == {"vibrant", "dominant", "rainbow"}

\* get_album_led_color, color_extractor.py:194-224, for these modes.
get_album_led_color(img, mode) ==
    rgb_to_hex(IF mode = "dominant" THEN get_dominant_color(img)
               ELSE get_vibrant_color(img))

ColourInit ==
    /\ WidgetIdle
    /\ ports = << >>
    /\ serial = NoSerial
    /\ config = NoConfig
    /\ \E img \in Images :
        image = [op |-> "colour", pc |-> "start", fn |-> "none", mode |-> "none",
                 pixels |-> img, rgb |-> <<0, 0, 0>>, hex |-> << >>]

\* A call of get_dominant_color on the image.
GetDominantColor ==
    /\ image.op = "colour" /\ image.pc = "start"
    /\ image' = [image EXCEPT !.pc = "done", !.fn = "dominant",
                              !.rgb = get_dominant_color(image.pixels)]
    /\ UNCHANGED <<widget, ports, serial, config>>

\* A call of get_vibrant_color on the image.
GetVibrantColor ==
    /\ image.op = "colour" /\ image.pc = "start"
    /\ image' = [image EXCEPT !.pc = "done", !.fn = "vibrant",
                              !.rgb = get_vibrant_color(image.pixels)]
    /\ UNCHANGED <<widget, ports, serial, config>>

\* A call of get_album_led_color on the image.
GetAlbumLedColor ==
    /\ image.op = "colour" /\ image.pc = "start"
    /\ \E mode \in Modes :
        image' = [image EXCEPT !.pc = "done", !.fn = "led", !.mode = mode,
                               !.hex = get_album_led_color(image.pixels, mode)]
    /\ UNCHANGED <<widget, ports, serial, config>>

ColourNext ==
    \/ GetDominantColor
    \/ GetVibrantColor
    \/ GetAlbumLedColor

ColourSpec == ColourInit /\ [][ColourNext]_vars

\* The function fn has returned.
Returned(fn) == image.op = "colour" /\ image.pc = "done" /\ image.fn = fn

\* p is the most frequent element of pool, the first one among equals.
FirstMostFrequent(p, pool) ==
    /\ \E k \in 1..Len(pool) : pool[k] = p
    /\ \A m \in 1..Len(pool) : Count(pool, pool[m]) <= Count(pool, p)
    /\ \A m \in 1..Len(pool) :
          Count(pool, pool[m]) = Count(pool, p) =>
              \E k \in 1..m : pool[k] = p

\* C24 (as claimed): get_dominant_color keeps the pixels whose average is
\* in [20, 235], boundaries included, and returns the most frequent of
\* them, or of all pixels when none is kept.
C24_ClosedRange ==
    Returned("dominant") =>
        LET pixels == Cropped(image.pixels)
            kept == SelectSeq(pixels,
                        LAMBDA p : 60 <= p[1] + p[2] + p[3] /\ p[1] + p[2] + p[3] <= 705)
        IN  FirstMostFrequent(image.rgb, IF kept = << >> THEN pixels ELSE kept)

\* C24 (amended): get_dominant_color keeps the pixels whose average is
\* strictly between 20 and 235 (channel sum strictly between 60 and 705)
\* and returns the most frequent of them, the first encountered among
\* equals, or that of all pixels when none is kept.
C24_OpenRange ==
    Returned("dominant") =>
        LET pixels == Cropped(image.pixels)
            kept == SelectSeq(pixels,
                        LAMBDA p : 60 < p[1] + p[2] + p[3] /\ p[1] + p[2] + p[3] < 705)
        IN  FirstMostFrequent(image.rgb, IF kept = << >> THEN pixels ELSE kept)

\* C24 witness: a pixel averaging exactly 20 came first and most often,
\* and another colour was returned.
C24_Witness ==
    /\ Returned("dominant")
    /\ Cropped(image.pixels)[1] = <<20, 20, 20>>
    /\ Count(Cropped(image.pixels), <<20, 20, 20>>) = 2
    /\ image.rgb # <<20, 20, 20>>

C26_CurrentJobNotCancelled ==
    [][\A j \in Jobs :
        (EndStep(j) /\ jobs'[j].result = "cancelled" /\ ~jobs'[j].stageFailed)
            => Detected > j]_vars

\* C27: a poll that finds the track paused ends the iteration and leaves
\* current_track_name, the dispatch history, both events, the jobs and the
\* files as they are, whatever track the snapshot names; a dispatch and a
\* raised cancellation only come from a playing snapshot, and the track
\* dispatched is the one of that snapshot.
C27_PausedPollInert ==
    [][/\ (pc = "polling" /\ track_info' # NoInfo /\ ~track_info'.is_playing) =>
            /\ pc' = "top"
            /\ UNCHANGED <<current_track_name, hist, events, jobs, files>>
       /\ gen' # gen => (track_info.is_playing /\ dispatched_uri' = track_info.uri)
       /\ (stop_thread_event' /\ ~stop_thread_event) => track_info'.is_playing
      ]_vars

\* C27 witness: with the job of the first track running and no
\* cancellation raised, a paused snapshot of a track with another name was
\* polled and nothing was dispatched.
C27_Witness ==
    /\ pc = "top" /\ gen = 1 /\ Alive(1) /\ ~stop_thread_event
    /\ track_info # NoInfo /\ ~track_info.is_playing
    /\ track_info.name = "Outro" /\ current_track_name = "Intro"

\* C28: current_track_name changes only at main.py:111 of a dispatch (or
\* with the end of main), to the name of the track dispatched, and while
\* the loop runs it is the name of the last track dispatched; a playing
\* snapshot with the current name, or any snapshot without a name,
\* dispatches nothing.
C28_NameFollowsDispatch ==
    [][/\ current_track_name' # current_track_name =>
            \/ pc' = "exited"
            \/ /\ pc = "grace" /\ gen' = gen + 1
               /\ current_track_name' = track_info.name
       /\ (pc' # "exited" /\ gen' > 0) => current_track_name' = TrackName(dispatched_uri')
       /\ (pc = "polling" /\ track_info'.is_playing
                /\ track_info'.name = current_track_name) =>
            (pc' = "top" /\ UNCHANGED <<hist, events, jobs>>)
       /\ (pc = "polling" /\ track_info' # NoInfo /\ track_info'.name \in {None, ""}) =>
            (pc' = "top" /\ UNCHANGED <<current_track_name, hist, events, jobs>>)
      ]_vars

\* C28 witness: after the first dispatch a playing snapshot with an empty
\* name was polled; nothing was dispatched and the name is unchanged.
C28_Witness ==
    /\ pc = "top" /\ gen = 1 /\ track_info.is_playing
    /\ track_info.name = "" /\ current_track_name = "Intro"

\* C30 (as claimed): once the loop has ended on a failed re-authorization
\* or on an interrupt, no job sends AT+SP=current_track_gif.gif.
C30_NoSendAfterExit ==
    [][\A j \in Jobs : SendStep(j) => exitReason \notin {"reauth", "interrupt"}]_vars

\* C29: an update that cannot read config.json (missing or unreadable)
\* returns False and leaves the file as it was, a missing file still
\* missing; an update whose write fails returns False.
C29_ReadOrWriteFailure ==
    [][(config.pc = "update" /\ config'.pc = "done") =>
        /\ config.file.kind \in {"missing", "unreadable"} =>
                (~config'.ret /\ config'.file = config.file)
        /\ config'.w # "ok" => ~config'.ret]_vars

\* C29 witness: an update found no config.json, returned False and
\* created none, although the write would have succeeded.
C29_Witness ==
    /\ config.pc = "done" /\ ~config.ret /\ config.w = "ok"
    /\ config.read.kind = "missing" /\ config.file.kind = "missing"

====
